---- MODULE Spec2Model ----
(***************************************************************************)
(* The resumable CSV export of transferdb (package o2m): O2M.CSV, the      *)
(* planner initWaitSyncTableRowID and the two-level executor               *)
(* csvPartSyncTable, over the two metadata tables wait_sync_meta (one row  *)
(* per table) and full_sync_meta (one row per chunk).                      *)
(***************************************************************************)
EXTENDS Integers, FiniteSets, Sequences, TLC

(* ------------------------------ bounds --------------------------------- *)
\* most chunks the splitter returns for one table
MaxChunks == 2
\* most columns of a table's catalog
MaxColumns == 2
\* the limits table-threads / sql-threads / task-threads of csv-config in the
\* runs: each limit is below the number of tasks in one of the configurations
ThreadConfigs == {[table |-> 1, sql |-> 2, task |-> 1],
                  [table |-> 2, sql |-> 1, task |-> 2]}
\* no run is in progress
NoThreads == [table |-> 0, sql |-> 0, task |-> 0]

Tables == {"A", "B"}

\* chunk predicates: WholeTable stands for the sentinel "1 = 1", i >= 1 for
\* the i-th predicate res["CMD"] the splitter returned
WholeTable == 0
Predicates == 0..MaxChunks

(* ----------------------- constants of package common ------------------- *)
TaskStatusWaiting == "WAITING"
TaskStatusRunning == "RUNNING"
TaskStatusSuccess == "SUCCESS"
TaskStatusFailed == "FAILED"
TaskTableDefaultSourceGlobalSCN == 0
TaskTableDefaultSplitChunkNums == 0
\* the SCN GetOracleCurrentSnapshotSCN returns
CurrentSCN == 1

\* absence of a row
NoRow == [st |-> "NONE", scn |-> 0, total |-> 0, ok |-> 0, failed |-> 0]
NoChunk == "NONE"

VARIABLES
    waitSyncMeta,     \* wait_sync_meta: table -> row (or NoRow)
    fullSyncMeta,     \* full_sync_meta: table -> predicate -> chunk status (or NoChunk)
    pc,               \* position of O2M.CSV
    exporters,        \* the configured table list of the run
    EnableCheckpoint, \* r.Cfg.CSVConfig.EnableCheckpoint of the run
    threads,          \* r.Cfg.CSVConfig.TableThreads / SQLThreads / TaskThreads of the run
    todo,             \* tables the current loop has not reached yet
    waitSyncTables,   \* CSV: tables to plan and execute
    partSyncTables,   \* CSV: resumable RUNNING tables
    csvPartTables,    \* argument of the csvPartSyncTable call in progress
    tblTask,          \* position of each task of errgroup g; "ok", "failed": it returned nil, an error
    chunkTask,        \* position of each chunk task of errgroup g1
    err,              \* the variable err of csvPartSyncTable the table tasks share
    gErr,             \* first error recorded by errgroup g
    g1Err,            \* table -> first error recorded by its errgroup g1
    result,           \* what the last CSV call returned
    failedAtStart,    \* a FAILED row existed when the run started
    queried,          \* chunks whose query was issued in the run
    cleared,          \* CSV: clearTables, the tables whose SUCCESS row the run deleted
    rowsOpen,         \* chunk tasks that returned with their rowsResult open
    updateErr,        \* table -> what the UpdateWaitSyncMeta of its task returned, until the task reads err
    oraDBVersion,     \* CSV: the version the source reported to the last call
    oracleTask,       \* initWaitSyncTableRowID: chunk task of each table on the source
    columnsINFO,      \* adjustTableSelectColumn: the column catalog of the table
    columnNames,      \* adjustTableSelectColumn: the expressions appended so far
    sourceColumnInfo, \* adjustTableSelectColumn: the projection it returned
    colPc,            \* position of adjustTableSelectColumn
    schemaName,       \* r.Cfg.OracleConfig.SchemaName as the configuration spells it
    tableName,        \* a table of exporters as the configuration spells it
    keyRow,           \* status of the wait_sync_meta row of that table
    keyArg,           \* SchemaNameS and TableNameS of the last metadata operation
    keyPc,            \* position of the run among its metadata operations on the table
    oracleSCN,        \* the current SCN of the source
    globalSCN,        \* initWaitSyncTableRowID: the SCN stored in the rows of a table
    chunkRead,        \* chunk -> the SCN of the data its query read (0: not run)
    revPc,            \* position of ReverseOracleToMySQLTable
    revTask,          \* position of the worker of each table; "ok", "failed": it returned nil, an error
    revWrite,         \* table -> what happened in its worker
    revErr,           \* the variable err of ReverseOracleToMySQLTable
    wpErr,            \* first error the work pool recorded
    revResult         \* what the last call of ReverseOracleToMySQLTable returned

vars == <<waitSyncMeta, fullSyncMeta, pc, exporters, EnableCheckpoint, threads, todo,
          waitSyncTables, partSyncTables, csvPartTables, tblTask, chunkTask,
          err, gErr, g1Err, result, failedAtStart, queried, cleared, rowsOpen, updateErr,
          oraDBVersion, oracleTask, columnsINFO, columnNames, sourceColumnInfo, colPc,
          schemaName, tableName, keyRow, keyArg, keyPc, oracleSCN, globalSCN, chunkRead,
          revPc, revTask, revWrite, revErr, wpErr, revResult>>

metaVars == <<waitSyncMeta, fullSyncMeta>>
cfgVars == <<exporters, EnableCheckpoint, threads>>
listVars == <<waitSyncTables, partSyncTables, csvPartTables>>
taskVars == <<tblTask, chunkTask, err, gErr, g1Err>>
ghostVars == <<failedAtStart, queried, cleared, rowsOpen, updateErr>>
runVars == <<metaVars, pc, cfgVars, todo, listVars, taskVars, result, ghostVars,
             oraDBVersion, oracleTask>>
srcVars == <<oraDBVersion, oracleTask>>
colVars == <<columnsINFO, columnNames, sourceColumnInfo, colPc>>
keyVars == <<schemaName, tableName, keyRow, keyArg, keyPc>>
scnVars == <<oracleSCN, globalSCN, chunkRead>>
revVars == <<revPc, revTask, revWrite, revErr, wpErr, revResult>>
sideVars == <<keyVars, scnVars, revVars>>

\* variant: the errgroup of the table tasks has no limit
TableThreadsNoLimit == Cardinality(Tables)

\* csv-config table-threads / sql-threads / task-threads
TableThreads == threads.table
SQLThreads == threads.sql
TaskThreads == threads.task

(* --------------------- the metadata store gateway ---------------------- *)
\* a call of the metadata store returns nil (TRUE) or an error (FALSE)
MetaOutcomes == BOOLEAN

Children(t) == {p \in Predicates : fullSyncMeta[t][p] # NoChunk}
ChildrenIn(t, S) == {p \in Predicates : fullSyncMeta[t][p] \in S}

\* meta.WaitSyncMeta.CreateWaitSyncMeta with the placeholder counters
PlaceholderRow ==
    [st |-> TaskStatusWaiting, scn |-> TaskTableDefaultSourceGlobalSCN,
     total |-> TaskTableDefaultSplitChunkNums, ok |-> 0, failed |-> 0]

\* meta.FullSyncMeta.DeleteFullSyncMetaBySchemaSyncMode: every chunk row of the key
DeleteFullSyncMetaBySchemaSyncMode == [t \in Tables |-> [p \in Predicates |-> NoChunk]]

\* meta.WaitSyncMeta.DeleteWaitSyncMeta: the WAITING row of one table
DeleteWaitSyncMeta(w, t) ==
    IF w[t].st = TaskStatusWaiting THEN [w EXCEPT ![t] = NoRow] ELSE w

\* meta.WaitSyncMeta.DetailWaitSyncMeta by table: the rows of the table
DetailWaitSyncMeta(w, t) == IF w[t].st = "NONE" THEN {} ELSE {t}

\* meta.WaitSyncMeta.DetailWaitSyncMetaSuccessTables
DetailWaitSyncMetaSuccessTables == {t \in Tables : waitSyncMeta[t].st = TaskStatusSuccess}

\* meta.WaitSyncMeta.DeleteWaitSyncMetaSuccessTables: SUCCESS rows of the listed tables
DeleteWaitSyncMetaSuccessTables(clear) ==
    [t \in Tables |-> IF t \in clear /\ waitSyncMeta[t].st = TaskStatusSuccess
                      THEN NoRow ELSE waitSyncMeta[t]]

\* meta.WaitSyncMeta.CountsErrWaitSyncMetaBySchema
CountsErrWaitSyncMetaBySchema ==
    Cardinality({t \in Tables : waitSyncMeta[t].st = TaskStatusFailed})

\* meta.FullSyncMeta.CountsFullSyncMetaByTaskTable
CountsFullSyncMetaByTaskTable(t) == Cardinality(Children(t))

(* ------------------------------ Init ----------------------------------- *)
InitRun ==
    /\ waitSyncMeta = [t \in Tables |-> NoRow]
    /\ fullSyncMeta = [t \in Tables |-> [p \in Predicates |-> NoChunk]]
    /\ pc = "idle"
    /\ exporters = {}
    /\ EnableCheckpoint = TRUE
    /\ threads = NoThreads
    /\ todo = {}
    /\ waitSyncTables = {}
    /\ partSyncTables = {}
    /\ csvPartTables = {}
    /\ tblTask = [t \in Tables |-> "none"]
    /\ chunkTask = [t \in Tables |-> [p \in Predicates |-> "none"]]
    /\ err = "nil"
    /\ gErr = "nil"
    /\ g1Err = [t \in Tables |-> "nil"]
    /\ result = "none"
    /\ failedAtStart = FALSE
    /\ queried = {}
    /\ cleared = {}
    /\ rowsOpen = {}
    /\ updateErr = [t \in Tables |-> "nil"]
    /\ oraDBVersion = 0
    /\ oracleTask = [t \in Tables |-> "none"]

\* no call of adjustTableSelectColumn is in progress
ColumnIdle ==
    /\ columnsINFO = <<>>
    /\ columnNames = <<>>
    /\ sourceColumnInfo = ""
    /\ colPc = "idle"

\* the key of the operations is not followed
KeyIdle ==
    /\ schemaName = ""
    /\ tableName = ""
    /\ keyRow = "NONE"
    /\ keyArg = <<"", "">>
    /\ keyPc = "idle"

\* the SCN of the reads is not followed
ScnIdle ==
    /\ oracleSCN = CurrentSCN
    /\ globalSCN = TaskTableDefaultSourceGlobalSCN
    /\ chunkRead = [p \in 1..MaxChunks |-> 0]

\* the tables GenerateOracleToMySQLTables returns
RevTables == {"T1", "T2", "T3"}

\* no call of ReverseOracleToMySQLTable is in progress
RevIdle ==
    /\ revPc = "idle"
    /\ revTask = [t \in RevTables |-> "none"]
    /\ revWrite = [t \in RevTables |-> "none"]
    /\ revErr = "nil"
    /\ wpErr = "nil"
    /\ revResult = "none"

Init ==
    /\ InitRun
    /\ ColumnIdle
    /\ KeyIdle
    /\ ScnIdle
    /\ RevIdle

\* the process is gone: nothing of the run survives but the metadata
ProcessReset ==
    /\ pc' = "idle"
    /\ todo' = {}
    /\ waitSyncTables' = {}
    /\ partSyncTables' = {}
    /\ csvPartTables' = {}
    /\ tblTask' = [t \in Tables |-> "none"]
    /\ chunkTask' = [t \in Tables |-> [p \in Predicates |-> "none"]]
    /\ err' = "nil"
    /\ gErr' = "nil"
    /\ g1Err' = [t \in Tables |-> "nil"]
    /\ oracleTask' = [t \in Tables |-> "none"]

\* CSV returns r (or the process dies): the state of the run is dropped
Returned(r) ==
    /\ ProcessReset
    /\ exporters' = {}
    /\ EnableCheckpoint' = TRUE
    /\ threads' = NoThreads
    /\ failedAtStart' = FALSE
    /\ queried' = {}
    /\ cleared' = {}
    /\ rowsOpen' = {}
    /\ updateErr' = [t \in Tables |-> "nil"]
    /\ result' = r
    /\ UNCHANGED <<colVars, sideVars>>

Return(r) ==
    /\ Returned(r)
    /\ UNCHANGED oraDBVersion

(* ------------------------------ O2M.CSV -------------------------------- *)
\* common.RequireOracleDBVersion, and the versions the source may report
RequireOracleDBVersion == 11
OracleVersions == {10, 11}

\* the table lists filterCFGTable returns in the runs: a table may leave the
\* configuration and come back
Configs == {{"A"}, {"A", "B"}}

\* variant: the version gate lets every version pass
VersionTooOldPass(v) == FALSE

\* CSV, line 76: the version gate
VersionTooOld(v) == v < RequireOracleDBVersion

\* a RUNNING row whose chunk rows are not chunks_total many (CSV, line 275)
ChunkCountDiffers(t) == CountsFullSyncMetaByTaskTable(t) # waitSyncMeta[t].total

\* the call starts: the version gate, then the branch on enable-checkpoint
CSVStart ==
    /\ pc = "idle"
    /\ \E cfg \in Configs, chk \in BOOLEAN, th \in ThreadConfigs, v \in OracleVersions :
        /\ oraDBVersion' = v
        /\ IF VersionTooOld(v)
           THEN Returned("errVersion")
           ELSE /\ exporters' = cfg
                /\ EnableCheckpoint' = chk
                /\ threads' = th
                /\ failedAtStart' = (\E t \in Tables : waitSyncMeta[t].st = TaskStatusFailed)
                /\ queried' = {}
                /\ cleared' = {}
                /\ rowsOpen' = {}
                /\ updateErr' = [t \in Tables |-> "nil"]
                /\ pc' = IF chk THEN "reap" ELSE "clean"
                /\ result' = "none"
                /\ UNCHANGED <<todo, listVars, taskVars, oracleTask, colVars, sideVars>>
    /\ UNCHANGED metaVars

\* CSV, lines 93-102: without checkpoint every chunk row of the key is deleted
CleanFullSyncMeta ==
    /\ pc = "clean"
    /\ \E ok \in MetaOutcomes :
        /\ IF ok
           THEN /\ fullSyncMeta' = DeleteFullSyncMetaBySchemaSyncMode
                /\ pc' = IF exporters = {} THEN "reap" ELSE "cleanwait"
                /\ todo' = exporters
                /\ UNCHANGED <<listVars, taskVars, result, cfgVars, ghostVars, srcVars, colVars, sideVars>>
           ELSE /\ Return("errMeta")
                /\ UNCHANGED fullSyncMeta
    /\ UNCHANGED waitSyncMeta

\* one round of the loop of CSV, lines 104-142, on a row set w
CleanWaitRow(w, t) ==
    LET d == DeleteWaitSyncMeta(w, t)
    IN  IF DetailWaitSyncMeta(d, t) = {} THEN [d EXCEPT ![t] = PlaceholderRow] ELSE d

CleanWaitSyncMeta(t) ==
    /\ pc = "cleanwait"
    /\ t \in todo
    /\ \E ok \in MetaOutcomes :
        /\ IF ok
           THEN /\ waitSyncMeta' = CleanWaitRow(waitSyncMeta, t)
                /\ todo' = todo \ {t}
                /\ pc' = IF todo = {t} THEN "reap" ELSE "cleanwait"
                /\ UNCHANGED <<listVars, taskVars, result, cfgVars, ghostVars, srcVars, colVars, sideVars>>
           ELSE \* the delete failed, or the delete was done and a later call failed
                /\ \E w \in {waitSyncMeta, DeleteWaitSyncMeta(waitSyncMeta, t)} :
                        waitSyncMeta' = w
                /\ Return("errMeta")
    /\ UNCHANGED fullSyncMeta

\* variant: every SUCCESS row of the key is cleared
ClearTablesAll == DetailWaitSyncMetaSuccessTables

\* common.FilterDifferenceStringItems(tablesByMeta, exporters)
ClearTables == DetailWaitSyncMetaSuccessTables \ exporters

\* CSV, lines 145-176: SUCCESS rows of tables that are not configured are deleted
ReapSuccess ==
    /\ pc = "reap"
    /\ \E ok \in MetaOutcomes :
        /\ IF ok
           THEN /\ waitSyncMeta' = IF ClearTables # {}
                                   THEN DeleteWaitSyncMetaSuccessTables(ClearTables)
                                   ELSE waitSyncMeta
                /\ cleared' = ClearTables
                /\ pc' = "errcheck"
                /\ UNCHANGED <<todo, listVars, taskVars, result, cfgVars, failedAtStart,
                               queried, rowsOpen, updateErr, srcVars, colVars, sideVars>>
           ELSE /\ Return("errMeta")
                /\ UNCHANGED waitSyncMeta
    /\ UNCHANGED fullSyncMeta

\* variant: a FAILED row does not stop the run
ErrTotalsStopNever == FALSE

\* CSV, line 189: a FAILED row under the key stops the run
ErrTotalsStop == CountsErrWaitSyncMetaBySchema > 0

\* CSV, lines 178-191
ErrCheck ==
    /\ pc = "errcheck"
    /\ \E ok \in MetaOutcomes :
        /\ IF ~ok THEN Return("errMeta")
           ELSE IF ErrTotalsStop THEN Return("errFailedExists")
           ELSE /\ pc' = IF exporters = {} THEN "classify" ELSE "ensure"
                /\ todo' = exporters
                /\ UNCHANGED <<listVars, taskVars, result, cfgVars, ghostVars, srcVars, colVars, sideVars>>
    /\ UNCHANGED metaVars

\* CSV, lines 193-220: a WAITING placeholder row for a configured table without a row
EnsureRow(t) ==
    /\ pc = "ensure"
    /\ t \in todo
    /\ \E ok \in MetaOutcomes :
        /\ IF ok
           THEN /\ waitSyncMeta' = IF DetailWaitSyncMeta(waitSyncMeta, t) = {}
                                   THEN [waitSyncMeta EXCEPT ![t] = PlaceholderRow]
                                   ELSE waitSyncMeta
                /\ todo' = todo \ {t}
                /\ pc' = IF todo = {t} THEN "classify" ELSE "ensure"
                /\ UNCHANGED <<listVars, taskVars, result, cfgVars, ghostVars, srcVars, colVars, sideVars>>
           ELSE /\ Return("errMeta")
                /\ UNCHANGED waitSyncMeta
    /\ UNCHANGED fullSyncMeta

\* variant: every WAITING row is planned again
WaitSyncDetailsAnyWaiting == {t \in Tables : waitSyncMeta[t].st = TaskStatusWaiting}

\* CSV, lines 228-245: DetailWaitSyncMeta filtered by WAITING and the placeholder
\* SCN and chunk total
WaitSyncDetails ==
    {t \in Tables : /\ waitSyncMeta[t].st = TaskStatusWaiting
                    /\ waitSyncMeta[t].scn = TaskTableDefaultSourceGlobalSCN
                    /\ waitSyncMeta[t].total = TaskTableDefaultSplitChunkNums}

\* CSV, lines 252-258: QueryWaitSyncMetaByPartTask, the RUNNING rows
PartSyncDetails == {t \in Tables : waitSyncMeta[t].st = TaskStatusRunning}

\* CSV, lines 262-281
PanicTblFullSlice == {t \in PartSyncDetails : ChunkCountDiffers(t)}
ResumableTables == PartSyncDetails \ PanicTblFullSlice

\* variant: an inconsistent RUNNING table is only left out of the resumable tables
CheckpointInconsistentIgnored == FALSE

\* CSV, line 283: an inconsistent RUNNING table stops the run
CheckpointInconsistent == PanicTblFullSlice # {}

\* CSV, lines 222-301: the two lists, the consistency check, the first call
Classify ==
    /\ pc = "classify"
    /\ \E ok \in MetaOutcomes :
        /\ IF ~ok THEN Return("errMeta")
           ELSE IF CheckpointInconsistent THEN Return("errInconsistent")
           ELSE /\ waitSyncTables' = WaitSyncDetails
                /\ partSyncTables' = ResumableTables
                /\ IF ResumableTables # {}
                   THEN /\ pc' = "syncPart"
                        /\ csvPartTables' = ResumableTables
                        /\ todo' = ResumableTables
                   ELSE /\ pc' = IF WaitSyncDetails # {} THEN "init" ELSE "report"
                        /\ csvPartTables' = {}
                        /\ todo' = WaitSyncDetails
                /\ UNCHANGED <<taskVars, result, cfgVars, ghostVars, srcVars, colVars, sideVars>>
    /\ UNCHANGED metaVars

(* ------------------------ initWaitSyncTableRowID ----------------------- *)
\* tasks of an errgroup that are in flight
InFlight == {t \in Tables : tblTask[t] \notin {"none", "ok", "failed"}}

\* a task of errgroup g returns e: g keeps the first error
TaskReturns(t, e) ==
    /\ tblTask' = [tblTask EXCEPT ![t] = IF e = "nil" THEN "ok" ELSE "failed"]
    /\ chunkTask' = [chunkTask EXCEPT ![t] = [p \in Predicates |-> "none"]]
    /\ g1Err' = [g1Err EXCEPT ![t] = "nil"]
    /\ gErr' = IF gErr = "nil" THEN e ELSE gErr

\* initWaitSyncTableRowID, lines 637-640: g.Go under the limit task-threads
InitGo(t) ==
    /\ pc = "init"
    /\ t \in todo
    /\ Cardinality(InFlight) < TaskThreads
    /\ todo' = todo \ {t}
    /\ tblTask' = [tblTask EXCEPT ![t] = "plan"]
    /\ UNCHANGED <<metaVars, pc, cfgVars, listVars, chunkTask, err, gErr, g1Err,
                   result, ghostVars, srcVars, colVars, sideVars>>

\* variant: no whole-table chunk when the split returns nothing
PlanPredicatesNoSentinel(n) == 1..n

\* the predicates of a plan of n chunks: none returned means the whole table
PlanPredicates(n) == IF n = 0 THEN {WholeTable} ELSE 1..n

\* variant: every chunk file of a table gets the index 0
ChunkIndexZero(p) == 0

\* initWaitSyncTableRowID, lines 783-788 and 698: strconv.Itoa(i) for the i-th
\* chunk of chunkRes, counted from 0, and `.0.csv` for the whole table
ChunkIndex(p) == IF p = WholeTable THEN 0 ELSE p - 1

\* initWaitSyncTableRowID, lines 695-698, 759-762 and 785-788: CSVFile, the
\* directory of the table and the file of the chunk
CSVFile(t, p) == <<t, ChunkIndex(p)>>

\* meta.Common.(Batch)CreateFullSyncMetaAndUpdateWaitSyncMeta: the chunk rows
CreateFullSyncMeta(t, P) ==
    [fullSyncMeta EXCEPT ![t] =
        [p \in Predicates |-> IF p \in P THEN TaskStatusWaiting ELSE fullSyncMeta[t][p]]]

\* meta.Common.(Batch)CreateFullSyncMetaAndUpdateWaitSyncMeta: the table row
UpdateWaitSyncMetaPlan(t, total) ==
    IF waitSyncMeta[t].st = "NONE" THEN waitSyncMeta
    ELSE [waitSyncMeta EXCEPT ![t] = [st |-> waitSyncMeta[t].st, scn |-> CurrentSCN,
                                      total |-> total, ok |-> 0, failed |-> 0]]

\* initWaitSyncTableRowID, lines 640-835: one table is planned. The chunk task
\* of the table is started on the source at line 724 and closed at line 825
InitTable(t) ==
    /\ pc = "init"
    /\ tblTask[t] = "plan"
    /\ \/ \* lines 651-672 and 724: the output directory, the catalog, the
          \* statistics or the start of the chunk task failed
          /\ TaskReturns(t, "E")
          /\ UNCHANGED <<metaVars, oracleTask>>
       \/ \* lines 674-715, zero rows in the statistics (no chunk task), and
          \* lines 738-780, no chunk returned: the whole table
          \E started \in BOOLEAN, ok \in MetaOutcomes :
            /\ oracleTask' = IF started THEN [oracleTask EXCEPT ![t] = "open"] ELSE oracleTask
            /\ IF ok
               THEN /\ fullSyncMeta' = CreateFullSyncMeta(t, PlanPredicates(0))
                    /\ waitSyncMeta' = UpdateWaitSyncMetaPlan(t, 1)
                    /\ TaskReturns(t, "nil")
               ELSE /\ TaskReturns(t, "E")
                    /\ UNCHANGED metaVars
       \/ \* lines 728-735: the split or the fetch of the chunks failed
          /\ oracleTask' = [oracleTask EXCEPT ![t] = "open"]
          /\ TaskReturns(t, "E")
          /\ UNCHANGED metaVars
       \/ \* lines 782-827: n chunks, the batch insert, then the chunk task is closed
          \E n \in 1..MaxChunks, ok \in MetaOutcomes, closed \in BOOLEAN :
            IF ok
            THEN /\ fullSyncMeta' = CreateFullSyncMeta(t, PlanPredicates(n))
                 /\ waitSyncMeta' = UpdateWaitSyncMetaPlan(t, Cardinality(PlanPredicates(n)))
                 /\ oracleTask' = [oracleTask EXCEPT ![t] = IF closed THEN "closed" ELSE "open"]
                 /\ TaskReturns(t, IF closed THEN "nil" ELSE "E")
            ELSE /\ oracleTask' = [oracleTask EXCEPT ![t] = "open"]
                 /\ TaskReturns(t, "E")
                 /\ UNCHANGED metaVars
    /\ UNCHANGED <<pc, cfgVars, todo, listVars, err, result, ghostVars, oraDBVersion, colVars, sideVars>>

\* variant: the planning call returns without waiting for its tasks
GWaitNoBarrier == todo = {}

\* variant: the planning call returns at the first error of a task
GWaitFirstError == todo = {} /\ (InFlight = {} \/ gErr # "nil")

\* initWaitSyncTableRowID, line 838: g.Wait returns once every task returned
GWait == todo = {} /\ InFlight = {}

\* initWaitSyncTableRowID, line 838, and csvWaitSyncTable, lines 611-615; the
\* planning call is over and so is its account of the chunk tasks
InitWait ==
    /\ pc = "init"
    /\ GWait
    /\ IF gErr # "nil"
       THEN Return("errPlan")
       ELSE /\ pc' = "syncWait"
            /\ csvPartTables' = waitSyncTables
            /\ todo' = waitSyncTables
            /\ tblTask' = [t \in Tables |-> "none"]
            /\ oracleTask' = [t \in Tables |-> "none"]
            /\ UNCHANGED <<waitSyncTables, partSyncTables, chunkTask, err, gErr, g1Err, result,
                           cfgVars, ghostVars, oraDBVersion, colVars, sideVars>>
    /\ UNCHANGED metaVars

(* --------------------------- csvPartSyncTable -------------------------- *)
Syncing == pc \in {"syncPart", "syncWait"}

\* csvPartSyncTable, lines 369-371: g.Go under the limit table-threads
TblGo(t) ==
    /\ Syncing
    /\ t \in todo
    /\ Cardinality(InFlight) < TableThreads
    /\ todo' = todo \ {t}
    /\ tblTask' = [tblTask EXCEPT ![t] = "update"]
    /\ UNCHANGED <<metaVars, pc, cfgVars, listVars, chunkTask, err, gErr, g1Err,
                   result, ghostVars, srcVars, colVars, sideVars>>

\* meta.WaitSyncMeta.UpdateWaitSyncMeta with TaskStatus RUNNING
UpdateWaitSyncMetaRunning(t) ==
    IF waitSyncMeta[t].st = "NONE" THEN waitSyncMeta
    ELSE [waitSyncMeta EXCEPT ![t].st = TaskStatusRunning]

\* csvPartSyncTable, lines 377-385: the update is assigned to the shared err
TblUpdate(t) ==
    /\ Syncing
    /\ tblTask[t] = "update"
    /\ \E ok \in MetaOutcomes :
        /\ waitSyncMeta' = IF ok THEN UpdateWaitSyncMetaRunning(t) ELSE waitSyncMeta
        /\ err' = IF ok THEN "nil" ELSE "E"
        /\ updateErr' = [updateErr EXCEPT ![t] = IF ok THEN "nil" ELSE "E"]
    /\ tblTask' = [tblTask EXCEPT ![t] = "check"]
    /\ UNCHANGED <<fullSyncMeta, pc, cfgVars, todo, listVars, chunkTask, gErr, g1Err,
                   result, failedAtStart, queried, cleared, rowsOpen, srcVars, colVars, sideVars>>

\* csvPartSyncTable, lines 386-388: the shared err is read
TblCheck(t) ==
    /\ Syncing
    /\ tblTask[t] = "check"
    /\ IF err # "nil"
       THEN TaskReturns(t, err)
       ELSE /\ tblTask' = [tblTask EXCEPT ![t] = "load"]
            /\ UNCHANGED <<chunkTask, gErr, g1Err>>
    /\ updateErr' = [updateErr EXCEPT ![t] = "nil"]
    /\ UNCHANGED <<metaVars, pc, cfgVars, todo, listVars, err, result,
                   failedAtStart, queried, cleared, rowsOpen, srcVars, colVars, sideVars>>

\* variant: every chunk row of the table is loaded, whatever its status
EligibleChunksAnyStatus(t) == Children(t)

\* csvPartSyncTable, lines 390-413: the WAITING chunks, then the FAILED ones
EligibleChunks(t) == ChildrenIn(t, {TaskStatusWaiting}) \cup ChildrenIn(t, {TaskStatusFailed})

TblLoad(t) ==
    /\ Syncing
    /\ tblTask[t] = "load"
    /\ \E ok \in MetaOutcomes :
        /\ IF ok
           THEN /\ chunkTask' = [chunkTask EXCEPT ![t] =
                        [p \in Predicates |-> IF p \in EligibleChunks(t) THEN "todo" ELSE "none"]]
                /\ tblTask' = [tblTask EXCEPT ![t] = "chunks"]
                /\ UNCHANGED <<gErr, g1Err>>
           ELSE TaskReturns(t, "E")
    /\ UNCHANGED <<metaVars, pc, cfgVars, todo, listVars, err, result, ghostVars, srcVars, colVars, sideVars>>

\* chunk tasks of errgroup g1 of table t that are in flight
ChunksInFlight(t) == {p \in Predicates : chunkTask[t][p] = "run"}

\* variant: a chunk that failed is dispatched again by the same table task
ChunkToDispatchRetry(t, p) ==
    \/ chunkTask[t][p] = "todo"
    \/ chunkTask[t][p] = "done" /\ fullSyncMeta[t][p] = TaskStatusFailed

\* csvPartSyncTable, lines 413-420: the loop over waitFullMetas reaches each
\* loaded chunk once
ChunkToDispatch(t, p) == chunkTask[t][p] = "todo"

\* csvPartSyncTable, lines 418-430: g1.Go under the limit sql-threads; the task
\* issues its query
ChunkGo(t, p) ==
    /\ Syncing
    /\ tblTask[t] = "chunks"
    /\ ChunkToDispatch(t, p)
    /\ Cardinality(ChunksInFlight(t)) < SQLThreads
    /\ chunkTask' = [chunkTask EXCEPT ![t][p] = "run"]
    /\ queried' = queried \cup {<<t, p>>}
    /\ UNCHANGED <<metaVars, pc, cfgVars, todo, listVars, tblTask, err, gErr, g1Err,
                   result, failedAtStart, cleared, rowsOpen, updateErr, srcVars, colVars, sideVars>>

\* meta.FullSyncMeta.UpdateFullSyncMetaChunk with TaskStatus st
UpdateFullSyncMetaChunk(t, p, st) ==
    IF fullSyncMeta[t][p] = NoChunk THEN fullSyncMeta
    ELSE [fullSyncMeta EXCEPT ![t][p] = st]

\* a chunk task returns e: g1 keeps the first error
ChunkReturns(t, p, e) ==
    /\ chunkTask' = [chunkTask EXCEPT ![t][p] = "done"]
    /\ g1Err' = [g1Err EXCEPT ![t] = IF g1Err[t] = "nil" THEN e ELSE g1Err[t]]

\* variant: a chunk recorded FAILED makes its task return an error
ChunkErrOnFailure(ok, closed) == "errMeta"

\* csvPartSyncTable, lines 444-451, 468-475 and 495-512: what a chunk task
\* returns; ok says whether the metadata update returned nil, closed whether
\* rowsResult.Close did
ChunkErr(ok, closed) ==
    IF ~ok THEN "errMeta" ELSE IF ~closed THEN "errClose" ELSE "nil"

\* variant: rowsResult.Close is deferred, it runs on every return
RowsClosedDeferred(ok) == TRUE

\* csvPartSyncTable, lines 454-476: whether rowsResult.Close at line 472 is
\* reached once Columns failed; ok says whether the metadata update returned nil
RowsClosed(ok) == ok

\* csvPartSyncTable, lines 430-452: QueryContext fails; the chunk is recorded
\* FAILED, then Close is called on the nil rowsResult and the process panics
ChunkQueryFails(t, p) ==
    /\ Syncing
    /\ chunkTask[t][p] = "run"
    /\ \E ok \in MetaOutcomes :
        /\ IF ok
           THEN /\ fullSyncMeta' = UpdateFullSyncMetaChunk(t, p, TaskStatusFailed)
                /\ Return("panic")
           ELSE /\ ChunkReturns(t, p, ChunkErr(FALSE, TRUE))
                /\ UNCHANGED <<fullSyncMeta, pc, todo, listVars, tblTask, err, gErr, result,
                               cfgVars, ghostVars, srcVars, colVars, sideVars>>
    /\ UNCHANGED waitSyncMeta

\* csvPartSyncTable, lines 454-476: Columns fails; the chunk is recorded FAILED
\* and the cursor closed (the close may fail); when the update fails the task
\* returns at line 469, before rowsResult.Close at line 472
ChunkColumnsFails(t, p) ==
    /\ Syncing
    /\ chunkTask[t][p] = "run"
    /\ \E ok \in MetaOutcomes, closed \in BOOLEAN :
        /\ fullSyncMeta' = IF ok THEN UpdateFullSyncMetaChunk(t, p, TaskStatusFailed)
                           ELSE fullSyncMeta
        /\ rowsOpen' = IF RowsClosed(ok) THEN rowsOpen ELSE rowsOpen \cup {<<t, p>>}
        /\ ChunkReturns(t, p, ChunkErr(ok, closed))
    /\ UNCHANGED <<waitSyncMeta, pc, cfgVars, todo, listVars, tblTask, err, gErr,
                   result, failedAtStart, queried, cleared, updateErr, srcVars, colVars, sideVars>>

\* csvPartSyncTable, lines 479-513: the writer ran; written says whether
\* WriteFile returned nil
ChunkWritten(t, p) ==
    /\ Syncing
    /\ chunkTask[t][p] = "run"
    /\ \E ok \in MetaOutcomes, written \in BOOLEAN :
        /\ fullSyncMeta' =
             IF ok THEN UpdateFullSyncMetaChunk(t, p,
                            IF written THEN TaskStatusSuccess ELSE TaskStatusFailed)
             ELSE fullSyncMeta
        /\ ChunkReturns(t, p, ChunkErr(ok, TRUE))
    /\ UNCHANGED <<waitSyncMeta, pc, cfgVars, todo, listVars, tblTask, err, gErr,
                   result, ghostVars, srcVars, colVars, sideVars>>

\* variant: the table task does not wait for its chunk tasks
ChunksTerminatedNoWait(t) == TRUE

\* csvPartSyncTable, line 516: g1.Wait returns once every chunk task returned
ChunksTerminated(t) == \A p \in Predicates : chunkTask[t][p] \in {"none", "done"}

\* variant: only the chunks the table task ran itself are counted as successes
SuccessChunkOfThisRun(t) ==
    {p \in ChildrenIn(t, {TaskStatusSuccess}) : chunkTask[t][p] = "done"}

\* csvPartSyncTable, lines 522-544
FailedChunkTotalErrs(t) == Cardinality(ChildrenIn(t, {TaskStatusFailed}))
SuccessChunkFullMeta(t) == ChildrenIn(t, {TaskStatusSuccess})

\* meta.Common.DeleteTableFullSyncMetaAndUpdateWaitSyncMeta: the chunk rows
DeleteTableFullSyncMeta(t) ==
    [fullSyncMeta EXCEPT ![t] =
        [p \in Predicates |-> IF fullSyncMeta[t][p] = TaskStatusSuccess
                              THEN NoChunk ELSE fullSyncMeta[t][p]]]

\* meta.Common.DeleteTableFullSyncMetaAndUpdateWaitSyncMeta and
\* meta.WaitSyncMeta.UpdateWaitSyncMeta: status and counters of the table row
UpdateWaitSyncMetaCounts(t, st, nOk, nFailed) ==
    IF waitSyncMeta[t].st = "NONE" THEN waitSyncMeta
    ELSE [waitSyncMeta EXCEPT ![t].st = st, ![t].ok = nOk, ![t].failed = nFailed]

\* variant: on failure every chunk row is counted as a success
TableOutcomeWaitAllRows(t) ==
    IF FailedChunkTotalErrs(t) = 0
    THEN UpdateWaitSyncMetaCounts(t, TaskStatusSuccess, Cardinality(SuccessChunkFullMeta(t)), 0)
    ELSE UpdateWaitSyncMetaCounts(t, TaskStatusFailed, Cardinality(Children(t)),
                                  FailedChunkTotalErrs(t))

\* csvPartSyncTable, lines 546-594: the outcome of the table
TableOutcomeWait(t) ==
    IF FailedChunkTotalErrs(t) = 0
    THEN UpdateWaitSyncMetaCounts(t, TaskStatusSuccess, Cardinality(SuccessChunkFullMeta(t)), 0)
    ELSE UpdateWaitSyncMetaCounts(t, TaskStatusFailed, Cardinality(SuccessChunkFullMeta(t)),
                                  FailedChunkTotalErrs(t))
\* variant: the chunk rows are kept when the table succeeds
TableOutcomeFullKeep(t) == fullSyncMeta
\* variant: the SUCCESS chunk rows are deleted whatever the outcome
TableOutcomeFullDelete(t) == DeleteTableFullSyncMeta(t)

TableOutcomeFull(t) ==
    IF FailedChunkTotalErrs(t) = 0 THEN DeleteTableFullSyncMeta(t) ELSE fullSyncMeta

\* variant: a table task whose table is FAILED returns an error
TableTaskErrIfFailed(t) == IF FailedChunkTotalErrs(t) = 0 THEN "nil" ELSE "E"

\* csvPartSyncTable, line 595: what the table task returns once the outcome of
\* the table is written, whatever the outcome
TableTaskErr(t) == "nil"

\* csvPartSyncTable, lines 516-595: the barrier, the counts, the outcome
TblFinal(t) ==
    /\ Syncing
    /\ tblTask[t] = "chunks"
    /\ ChunksTerminated(t)
    /\ IF g1Err[t] # "nil"
       THEN /\ TaskReturns(t, "E")
            /\ UNCHANGED metaVars
       ELSE \E ok \in MetaOutcomes :
            /\ IF ok
               THEN /\ waitSyncMeta' = TableOutcomeWait(t)
                    /\ fullSyncMeta' = TableOutcomeFull(t)
                    /\ TaskReturns(t, TableTaskErr(t))
               ELSE /\ TaskReturns(t, "E")
                    /\ UNCHANGED metaVars
    /\ UNCHANGED <<pc, cfgVars, todo, listVars, err, result, ghostVars, srcVars, colVars, sideVars>>

\* variant: csvPartSyncTable returns without waiting for its table tasks
TableTasksReturnedNoWait == todo = {}

\* csvPartSyncTable, line 599: g.Wait returns once every table task returned
TableTasksReturned == todo = {} /\ InFlight = {}

\* csvPartSyncTable, line 599, and CSV, lines 297-324: g.Wait, then the next phase
SyncWait ==
    /\ Syncing
    /\ TableTasksReturned
    /\ IF gErr # "nil"
       THEN Return("errSync")
       ELSE /\ tblTask' = [t \in Tables |-> "none"]
            /\ IF pc = "syncPart" /\ waitSyncTables # {}
               THEN /\ pc' = "init"
                    /\ todo' = waitSyncTables
               ELSE /\ pc' = "report"
                    /\ todo' = {}
            /\ csvPartTables' = {}
            /\ UNCHANGED <<waitSyncTables, partSyncTables, chunkTask, err, gErr, g1Err, result,
                           cfgVars, ghostVars, srcVars, colVars, sideVars>>
    /\ UNCHANGED metaVars

\* CSV, lines 326-356: the totals are read and logged, and nil is returned
Report ==
    /\ pc = "report"
    /\ \E ok \in MetaOutcomes :
        /\ Return(IF ok THEN "nil" ELSE "errMeta")
    /\ UNCHANGED metaVars

(* ------------------------ the process, the operator -------------------- *)
\* the process is killed during a run
Crash ==
    /\ pc # "idle"
    /\ Return("killed")
    /\ UNCHANGED metaVars

\* the operator flips a FAILED row to RUNNING between two runs (CSV, line 190)
OperatorResume(t) ==
    /\ pc = "idle"
    /\ waitSyncMeta[t].st = TaskStatusFailed
    /\ waitSyncMeta' = [waitSyncMeta EXCEPT ![t].st = TaskStatusRunning]
    /\ UNCHANGED <<fullSyncMeta, pc, cfgVars, todo, listVars, taskVars, result, ghostVars, srcVars, colVars, sideVars>>

\* the operator deletes a FAILED row and its chunk rows between two runs
OperatorReset(t) ==
    /\ pc = "idle"
    /\ waitSyncMeta[t].st = TaskStatusFailed
    /\ waitSyncMeta' = [waitSyncMeta EXCEPT ![t] = NoRow]
    /\ fullSyncMeta' = [fullSyncMeta EXCEPT ![t] = [p \in Predicates |-> NoChunk]]
    /\ UNCHANGED <<pc, cfgVars, todo, listVars, taskVars, result, ghostVars, srcVars, colVars, sideVars>>

Next ==
    \/ CSVStart
    \/ CleanFullSyncMeta
    \/ \E t \in Tables : CleanWaitSyncMeta(t)
    \/ ReapSuccess
    \/ ErrCheck
    \/ \E t \in Tables : EnsureRow(t)
    \/ Classify
    \/ \E t \in Tables : InitGo(t)
    \/ \E t \in Tables : InitTable(t)
    \/ InitWait
    \/ \E t \in Tables : TblGo(t)
    \/ \E t \in Tables : TblUpdate(t)
    \/ \E t \in Tables : TblCheck(t)
    \/ \E t \in Tables : TblLoad(t)
    \/ \E t \in Tables, p \in Predicates : ChunkGo(t, p)
    \/ \E t \in Tables, p \in Predicates : ChunkWritten(t, p)
    \/ \E t \in Tables, p \in Predicates : ChunkColumnsFails(t, p)
    \/ \E t \in Tables, p \in Predicates : ChunkQueryFails(t, p)
    \/ \E t \in Tables : TblFinal(t)
    \/ SyncWait
    \/ Report
    \/ Crash
    \/ \E t \in Tables : OperatorResume(t)
    \/ \E t \in Tables : OperatorReset(t)

Spec == Init /\ [][Next]_vars

(* ----------------------- adjustTableSelectColumn ----------------------- *)
\* the DATA_TYPE spellings GetOracleSchemaTableColumn returns
DataTypes == {"NUMBER", "VARCHAR2", "RAW", "XMLTYPE", "DATE", "date",
              "INTERVAL DAY TO SECOND", "interval day to second",
              "TIMESTAMP", "timestamp", "TIMESTAMP WITH TIME ZONE"}

\* the DATA_SCALE texts it returns: empty for a column without scale
Scales == {"", "-1", "0", "3", "6", "9"}

\* strings.ToUpper on the spellings
ToUpper(d) ==
    CASE d = "date" -> "DATE"
      [] d = "interval day to second" -> "INTERVAL DAY TO SECOND"
      [] d = "timestamp" -> "TIMESTAMP"
      [] OTHER -> d

\* strings.Contains(d, sub) for the two substrings the code looks for: the
\* comparison is by bytes, so a lower-case spelling contains neither
Contains(d, sub) ==
    CASE sub = "INTERVAL" -> d \in {"INTERVAL DAY TO SECOND"}
      [] sub = "TIMESTAMP" -> d \in {"TIMESTAMP", "TIMESTAMP WITH TIME ZONE"}
      [] OTHER -> FALSE

\* strconv.Atoi: the error, and the value
AtoiFails(x) == x = ""
Atoi(x) ==
    CASE x = "-1" -> -1
      [] x = "0" -> 0
      [] x = "3" -> 3
      [] x = "6" -> 6
      [] x = "9" -> 9
      [] OTHER -> 0

Row(c, d, x) == [COLUMN_NAME |-> c, DATA_TYPE |-> d, DATA_SCALE |-> x]

\* the catalogs of the tables: one column TS, or the columns ID and TS
Catalogs ==
    {<<Row("TS", d, x)>> : d \in DataTypes, x \in Scales}
        \cup (IF MaxColumns < 2 THEN {}
              ELSE {<<Row("ID", d1, x1), Row("TS", d2, x2)>> :
                        d1 \in DataTypes, x1 \in {"", "0"}, d2 \in DataTypes, x2 \in Scales})
        \cup (IF MaxColumns < 3 THEN {}
              ELSE {<<Row("ID", "NUMBER", "0"), Row("D", d1, ""), Row("TS", d2, x2)>> :
                        d1 \in DataTypes, d2 \in DataTypes, x2 \in Scales})

\* adjustTableSelectColumn, lines 886-893: the expression of a TIMESTAMP column
TimestampColumn(rowCol) ==
    LET dataScale == Atoi(rowCol.DATA_SCALE)
    IN  IF dataScale = 0
        THEN "TO_CHAR(" \o rowCol.COLUMN_NAME \o ",'yyyy-mm-dd hh24:mi:ss') AS "
                \o rowCol.COLUMN_NAME
        ELSE IF dataScale < 0 /\ dataScale <= 6
        THEN "TO_CHAR(" \o rowCol.COLUMN_NAME \o ",'yyyy-mm-dd hh24:mi:ss.ff"
                \o rowCol.DATA_SCALE \o "') AS " \o rowCol.COLUMN_NAME
        ELSE "TO_CHAR(" \o rowCol.COLUMN_NAME \o ",'yyyy-mm-dd hh24:mi:ss.ff6') AS "
                \o rowCol.COLUMN_NAME

\* adjustTableSelectColumn, lines 882-885: the scale of a TIMESTAMP column
\* does not parse
ColumnFails(rowCol) ==
    /\ ToUpper(rowCol.DATA_TYPE) \notin {"NUMBER", "XMLTYPE", "RAW", "DATE"}
    /\ ~Contains(rowCol.DATA_TYPE, "INTERVAL")
    /\ Contains(rowCol.DATA_TYPE, "TIMESTAMP")
    /\ AtoiFails(rowCol.DATA_SCALE)

\* adjustTableSelectColumn, lines 859-898: the expression of one column
ColumnExpr(rowCol) ==
    CASE ToUpper(rowCol.DATA_TYPE) = "NUMBER" -> rowCol.COLUMN_NAME
      [] ToUpper(rowCol.DATA_TYPE) = "XMLTYPE" ->
            " XMLSERIALIZE(CONTENT " \o rowCol.COLUMN_NAME \o " AS CLOB) AS "
                \o rowCol.COLUMN_NAME
      [] ToUpper(rowCol.DATA_TYPE) = "RAW" -> rowCol.COLUMN_NAME
      [] ToUpper(rowCol.DATA_TYPE) = "DATE" ->
            "TO_CHAR(" \o rowCol.COLUMN_NAME \o ",'yyyy-MM-dd HH24:mi:ss') AS "
                \o rowCol.COLUMN_NAME
      [] OTHER ->
            IF Contains(rowCol.DATA_TYPE, "INTERVAL")
            THEN "TO_CHAR(" \o rowCol.COLUMN_NAME \o ") AS " \o rowCol.COLUMN_NAME
            ELSE IF Contains(rowCol.DATA_TYPE, "TIMESTAMP")
            THEN TimestampColumn(rowCol)
            ELSE rowCol.COLUMN_NAME

\* strings.Join(names, ",")
RECURSIVE Join(_)
Join(names) ==
    IF names = <<>> THEN ""
    ELSE IF Len(names) = 1 THEN names[1]
    ELSE names[1] \o "," \o Join(Tail(names))

\* a call of adjustTableSelectColumn on one catalog
InitColumn ==
    /\ InitRun
    /\ KeyIdle
    /\ ScnIdle
    /\ RevIdle
    /\ columnsINFO \in Catalogs
    /\ columnNames = <<>>
    /\ sourceColumnInfo = ""
    /\ colPc = "loop"

\* adjustTableSelectColumn, lines 858-900: one round of the loop
AdjustColumn ==
    /\ colPc = "loop"
    /\ Len(columnNames) < Len(columnsINFO)
    /\ LET rowCol == columnsINFO[Len(columnNames) + 1]
       IN  IF ColumnFails(rowCol)
           THEN /\ colPc' = "failed"
                /\ UNCHANGED columnNames
           ELSE /\ columnNames' = Append(columnNames, ColumnExpr(rowCol))
                /\ UNCHANGED colPc
    /\ UNCHANGED <<columnsINFO, sourceColumnInfo, runVars, sideVars>>

\* adjustTableSelectColumn, line 902
AdjustReturn ==
    /\ colPc = "loop"
    /\ Len(columnNames) = Len(columnsINFO)
    /\ sourceColumnInfo' = Join(columnNames)
    /\ colPc' = "returned"
    /\ UNCHANGED <<columnsINFO, columnNames, runVars, sideVars>>

NextColumn ==
    \/ AdjustColumn
    \/ AdjustReturn

SpecColumn == InitColumn /\ [][NextColumn]_vars

TypeOK ==
    /\ \A t \in Tables : waitSyncMeta[t].st \in
            {"NONE", TaskStatusWaiting, TaskStatusRunning, TaskStatusSuccess, TaskStatusFailed}

(* ------------------------------ properties ----------------------------- *)
(* ------------------ the keys of the metadata operations ---------------- *)
\* the spellings of the schema and of the table in the configuration
SchemaSpellings == {"MARVIN", "marvin", "Marvin"}
TableSpellings == {"T1", "t1", "Tab1"}

\* common.StringUPPER on the spellings
StringUPPER(x) ==
    CASE x \in {"MARVIN", "marvin", "Marvin"} -> "MARVIN"
      [] x \in {"T1", "t1"} -> "T1"
      [] x = "Tab1" -> "TAB1"
      [] OTHER -> x

NoKey == <<"", "">>

\* SchemaNameS and TableNameS of the argument of each operation
\* CSV, lines 108-109: DeleteWaitSyncMeta
DeleteWaitKey == <<StringUPPER(schemaName), tableName>>
\* CSV, lines 120-121: DetailWaitSyncMeta after the delete
DetailWaitKey == <<StringUPPER(schemaName), tableName>>
\* CSV, lines 131-132: CreateWaitSyncMeta after the delete
CreateWaitKey == <<StringUPPER(schemaName), StringUPPER(tableName)>>
\* CSV, lines 198-199 and 209-210: DetailWaitSyncMeta and CreateWaitSyncMeta
EnsureKey == <<StringUPPER(schemaName), StringUPPER(tableName)>>
\* csvPartSyncTable, lines 380-381: UpdateWaitSyncMeta to RUNNING
RunningKey == <<schemaName, StringUPPER(tableName)>>
\* csvPartSyncTable, lines 552-553, 558-559 and 577-578: the outcome
OutcomeKey == <<StringUPPER(schemaName), StringUPPER(tableName)>>

\* the key under which the row of the table is stored: the gateway accepts
\* upper-case identifiers only
RowKey == <<StringUPPER(schemaName), StringUPPER(tableName)>>

\* the gateway finds the row of the table under the key k
KeyFinds(k) == k = RowKey /\ keyRow # "NONE"

\* a configuration, and no row of the table yet
InitKey ==
    /\ InitRun
    /\ ColumnIdle
    /\ ScnIdle
    /\ RevIdle
    /\ schemaName \in SchemaSpellings
    /\ tableName \in TableSpellings
    /\ keyRow = "NONE"
    /\ keyArg = NoKey
    /\ keyPc = "idle"

\* CSV, line 92: the branch on enable-checkpoint
KeyStart ==
    /\ keyPc = "idle"
    /\ \E chk \in BOOLEAN : keyPc' = IF chk THEN "ensure" ELSE "delete"
    /\ keyArg' = NoKey
    /\ UNCHANGED <<schemaName, tableName, keyRow, runVars, colVars, scnVars, revVars>>

\* CSV, lines 105-114: the WAITING row of the table is deleted
KeyDelete ==
    /\ keyPc = "delete"
    /\ keyArg' = DeleteWaitKey
    /\ keyRow' = IF KeyFinds(DeleteWaitKey) /\ keyRow = TaskStatusWaiting THEN "NONE" ELSE keyRow
    /\ keyPc' = "detail"
    /\ UNCHANGED <<schemaName, tableName, runVars, colVars, scnVars, revVars>>

\* CSV, lines 117-127: the rows of the table are read
KeyDetail ==
    /\ keyPc = "detail"
    /\ keyArg' = DetailWaitKey
    /\ keyPc' = IF KeyFinds(DetailWaitKey) THEN "ensure" ELSE "create"
    /\ UNCHANGED <<schemaName, tableName, keyRow, runVars, colVars, scnVars, revVars>>

\* CSV, lines 128-140: no row was read, the placeholder is created; the
\* gateway refuses a second row under the key and the run returns the error
KeyCreate ==
    /\ keyPc = "create"
    /\ keyArg' = CreateWaitKey
    /\ IF keyRow = "NONE"
       THEN keyRow' = TaskStatusWaiting /\ keyPc' = "ensure"
       ELSE keyRow' = keyRow /\ keyPc' = "idle"
    /\ UNCHANGED <<schemaName, tableName, runVars, colVars, scnVars, revVars>>

\* CSV, lines 193-220: the row of the table is read, and created if missing; a
\* table that is SUCCESS or FAILED is not executed
KeyEnsure ==
    /\ keyPc = "ensure"
    /\ keyArg' = EnsureKey
    /\ keyRow' = IF KeyFinds(EnsureKey) THEN keyRow ELSE TaskStatusWaiting
    /\ keyPc' = IF keyRow \in {TaskStatusSuccess, TaskStatusFailed} THEN "idle" ELSE "running"
    /\ UNCHANGED <<schemaName, tableName, runVars, colVars, scnVars, revVars>>

\* csvPartSyncTable, lines 377-388: the table task sets its row RUNNING
KeyRunning ==
    /\ keyPc = "running"
    /\ keyArg' = RunningKey
    /\ keyRow' = IF KeyFinds(RunningKey) THEN TaskStatusRunning ELSE keyRow
    /\ keyPc' = "outcome"
    /\ UNCHANGED <<schemaName, tableName, runVars, colVars, scnVars, revVars>>

\* csvPartSyncTable, lines 546-594: the outcome of the table is written
KeyOutcome ==
    /\ keyPc = "outcome"
    /\ keyArg' = OutcomeKey
    /\ \E st \in {TaskStatusSuccess, TaskStatusFailed} :
        keyRow' = IF KeyFinds(OutcomeKey) THEN st ELSE keyRow
    /\ keyPc' = "idle"
    /\ UNCHANGED <<schemaName, tableName, runVars, colVars, scnVars, revVars>>

\* the process is killed during the run
KeyCrash ==
    /\ keyPc # "idle"
    /\ keyPc' = "idle"
    /\ keyArg' = NoKey
    /\ UNCHANGED <<schemaName, tableName, keyRow, runVars, colVars, scnVars, revVars>>

\* the operator deletes the row of the table between two runs
KeyReset ==
    /\ keyPc = "idle"
    /\ keyRow \in {TaskStatusSuccess, TaskStatusFailed}
    /\ keyRow' = "NONE"
    /\ keyArg' = NoKey
    /\ UNCHANGED <<schemaName, tableName, keyPc, runVars, colVars, scnVars, revVars>>

NextKey ==
    \/ KeyStart
    \/ KeyDelete
    \/ KeyDetail
    \/ KeyCreate
    \/ KeyEnsure
    \/ KeyRunning
    \/ KeyOutcome
    \/ KeyCrash
    \/ KeyReset

SpecKey == InitKey /\ [][NextKey]_vars

(* ----------------------- the SCN of the chunk reads -------------------- *)
\* most commits on the source during the export of a table
MaxCommits == 4

\* csvPartSyncTable, lines 421-430: querySQL is `SELECT ... FROM ... WHERE
\* chunk`, without a flashback clause: QueryContext reads the data of the
\* current SCN of the source
QueryReadSCN == oracleSCN

\* the table is not planned, the source is at its first SCN
InitSnapshot ==
    /\ InitRun
    /\ ColumnIdle
    /\ KeyIdle
    /\ ScnIdle
    /\ RevIdle

\* a transaction commits on the source
OracleCommit ==
    /\ oracleSCN < CurrentSCN + MaxCommits
    /\ oracleSCN' = oracleSCN + 1
    /\ UNCHANGED <<globalSCN, chunkRead, runVars, colVars, keyVars, revVars>>

\* initWaitSyncTableRowID, lines 625 and 797: GetOracleCurrentSnapshotSCN, and
\* the SCN is stored as GlobalScnS of the rows of the table
SnapshotPlan ==
    /\ globalSCN = TaskTableDefaultSourceGlobalSCN
    /\ globalSCN' = oracleSCN
    /\ UNCHANGED <<oracleSCN, chunkRead, runVars, colVars, keyVars, revVars>>

\* csvPartSyncTable, lines 418-430: the query of a chunk of the planned table
SnapshotQuery(p) ==
    /\ globalSCN # TaskTableDefaultSourceGlobalSCN
    /\ chunkRead[p] = 0
    /\ chunkRead' = [chunkRead EXCEPT ![p] = QueryReadSCN]
    /\ UNCHANGED <<oracleSCN, globalSCN, runVars, colVars, keyVars, revVars>>

NextSnapshot ==
    \/ OracleCommit
    \/ SnapshotPlan
    \/ \E p \in 1..MaxChunks : SnapshotQuery(p)

SpecSnapshot == InitSnapshot /\ [][NextSnapshot]_vars

(* --------------------- ReverseOracleToMySQLTable ----------------------- *)
\* cfg.AppConfig.Threads
RevThreads == 2

\* what happens in the worker of a table: GenerateAndExecMySQLCreateSQL fails,
\* the write to reverse.sql fails, the write to compatibility.sql fails, or
\* both texts are written
WorkerOutcomes == {"errGenerate", "errReverse", "errCompatibility", "written"}

\* ReverseOracleToMySQLTable, lines 121-131: what the worker returns: errMSg
\* at line 123, the variable err of the function at lines 126 and 129
WorkerReturns(out) ==
    CASE out = "errGenerate" -> "errMSg"
      [] out \in {"errReverse", "errCompatibility"} -> revErr
      [] OTHER -> "nil"

InitReverse ==
    /\ InitRun
    /\ ColumnIdle
    /\ KeyIdle
    /\ ScnIdle
    /\ RevIdle

\* ReverseOracleToMySQLTable, lines 49-113: the tables, the two files and the
\* header; each step returns its error, and err is nil past line 106
RevStart ==
    /\ revPc = "idle"
    /\ \E ok \in BOOLEAN :
        IF ok
        THEN /\ revPc' = "pool"
             /\ revTask' = [t \in RevTables |-> "todo"]
             /\ revResult' = "none"
        ELSE /\ revResult' = "err"
             /\ revTask' = [t \in RevTables |-> "none"]
             /\ UNCHANGED revPc
    /\ revWrite' = [t \in RevTables |-> "none"]
    /\ revErr' = "nil"
    /\ wpErr' = "nil"
    /\ UNCHANGED <<runVars, colVars, keyVars, scnVars>>

\* workers of the pool that are running
RevRunning == {t \in RevTables : revTask[t] = "run"}

\* ReverseOracleToMySQLTable, lines 115-120: wp.Do under the limit Threads
RevDo(t) ==
    /\ revPc = "pool"
    /\ revTask[t] = "todo"
    /\ Cardinality(RevRunning) < RevThreads
    /\ revTask' = [revTask EXCEPT ![t] = "run"]
    /\ UNCHANGED <<revPc, revWrite, revErr, wpErr, revResult, runVars, colVars, keyVars, scnVars>>

\* ReverseOracleToMySQLTable, lines 120-132: the worker of a table; the pool
\* keeps the first error a worker returns
RevWorker(t) ==
    /\ revPc = "pool"
    /\ revTask[t] = "run"
    /\ \E out \in WorkerOutcomes :
        /\ revWrite' = [revWrite EXCEPT ![t] = out]
        /\ revTask' = [revTask EXCEPT ![t] = IF WorkerReturns(out) = "nil" THEN "ok" ELSE "failed"]
        /\ wpErr' = IF wpErr = "nil" THEN WorkerReturns(out) ELSE wpErr
    /\ UNCHANGED <<revPc, revErr, revResult, runVars, colVars, keyVars, scnVars>>

\* ReverseOracleToMySQLTable, lines 134-148: wp.Wait, wp.IsDone and the return
RevWait ==
    /\ revPc = "pool"
    /\ \A t \in RevTables : revTask[t] \in {"ok", "failed"}
    /\ revErr' = wpErr
    /\ revResult' = IF wpErr # "nil" THEN "err" ELSE "nil"
    /\ revPc' = "idle"
    /\ UNCHANGED <<revTask, revWrite, wpErr, runVars, colVars, keyVars, scnVars>>

NextReverse ==
    \/ RevStart
    \/ \E t \in RevTables : RevDo(t)
    \/ \E t \in RevTables : RevWorker(t)
    \/ RevWait

SpecReverse == InitReverse /\ [][NextReverse]_vars

Terminal == {TaskStatusSuccess, TaskStatusFailed}
HasRow(t) == waitSyncMeta[t].st # "NONE"
QueriedOf(t) == {p \in Predicates : <<t, p>> \in queried}

\* C1: a table row in SUCCESS has no chunk row, in every reachable state (the
\* quiescent ones between two runs included)
C1_SuccessHasNoChildren ==
    \A t \in Tables : waitSyncMeta[t].st = TaskStatusSuccess => Children(t) = {}

\* a two-chunk table was executed to SUCCESS and the run is over
C1_Witness ==
    \E t \in Tables : /\ pc = "idle"
                      /\ result = "nil"
                      /\ waitSyncMeta[t].st = TaskStatusSuccess
                      /\ waitSyncMeta[t].total = 2

\* C2: a table row in RUNNING or FAILED has exactly chunks_total chunk rows, in
\* every reachable state
C2_RunningFailedChildrenEqualTotal ==
    \A t \in Tables :
        waitSyncMeta[t].st \in {TaskStatusRunning, TaskStatusFailed}
            => Cardinality(Children(t)) = waitSyncMeta[t].total

\* C3: resuming a RUNNING table loads exactly its WAITING and FAILED chunks, a
\* chunk task only starts on such a chunk (never on a SUCCESS one), and when
\* every chunk the table task dispatched is SUCCESS and the task returns nil
\* the table is SUCCESS and has no chunk row left
C3_ResumeSkipsCompleted ==
    [][\A t \in Tables :
         /\ (pc = "syncPart" /\ tblTask[t] = "load" /\ tblTask'[t] = "chunks")
               => {p \in Predicates : chunkTask'[t][p] = "todo"}
                    = {p \in Predicates :
                          fullSyncMeta[t][p] \in {TaskStatusWaiting, TaskStatusFailed}}
         /\ \A p \in Predicates :
               (pc = "syncPart" /\ chunkTask[t][p] # "run" /\ chunkTask'[t][p] = "run")
                  => fullSyncMeta[t][p] \in {TaskStatusWaiting, TaskStatusFailed}
         /\ (/\ pc = "syncPart" /\ tblTask[t] = "chunks" /\ tblTask'[t] = "ok"
             /\ \A p \in Predicates :
                   chunkTask[t][p] # "none" => fullSyncMeta[t][p] = TaskStatusSuccess)
               => /\ waitSyncMeta'[t].st = TaskStatusSuccess
                  /\ \A p \in Predicates : fullSyncMeta'[t][p] = NoChunk
      ]_vars

\* a RUNNING table of two chunks, one of them SUCCESS before the run, was
\* resumed: only the other chunk was queried and the table is SUCCESS
C3_Witness ==
    \E t \in Tables : /\ pc = "syncPart"
                      /\ tblTask[t] = "ok"
                      /\ waitSyncMeta[t].st = TaskStatusSuccess
                      /\ waitSyncMeta[t].ok = 2
                      /\ Cardinality(QueriedOf(t)) = 1

\* C4: a table row becomes SUCCESS only in a step before which every chunk
\* task of the table has returned and every chunk it ran is SUCCESS or FAILED
C4_SuccessAfterChunksTerminal ==
    [][\A t \in Tables :
         (waitSyncMeta[t].st # TaskStatusSuccess /\ waitSyncMeta'[t].st = TaskStatusSuccess)
            => \A p \in Predicates :
                  /\ chunkTask[t][p] \in {"none", "done"}
                  /\ chunkTask[t][p] = "done" => fullSyncMeta[t][p] \in Terminal
      ]_vars

\* both chunks of a table ran concurrently in the run and the table is SUCCESS
C4_Witness ==
    \E t \in Tables : /\ Syncing
                      /\ waitSyncMeta[t].st = TaskStatusSuccess
                      /\ QueriedOf(t) = {1, 2}

\* C5: a run that starts while a row is FAILED never gets past the check of
\* CSV line 189 and queries no chunk; it leaves that check only by returning
\* an error (or being killed); a FAILED row is changed by the operator alone,
\* and no chunk of a FAILED table is ever queried
C5_FailedRowStopsRun ==
    /\ [](failedAtStart => /\ pc \in {"clean", "cleanwait", "reap", "errcheck"}
                           /\ queried = {})
    /\ [][/\ (failedAtStart /\ pc' = "idle")
                => result' \in {"errFailedExists", "errMeta", "killed"}
          /\ (failedAtStart /\ pc = "errcheck" /\ pc' # "errcheck")
                => result' \in {"errFailedExists", "errMeta", "killed"}
          /\ \A t \in Tables :
                /\ (waitSyncMeta[t].st = TaskStatusFailed /\ waitSyncMeta'[t] # waitSyncMeta[t])
                      => (pc = "idle" /\ pc' = "idle")
                /\ \A p \in Predicates :
                      (chunkTask[t][p] # "run" /\ chunkTask'[t][p] = "run")
                         => waitSyncMeta[t].st # TaskStatusFailed
         ]_vars

\* a table failed in one run, and the next run stopped on its FAILED row
C5_Witness ==
    /\ pc = "idle"
    /\ result = "errFailedExists"
    /\ \E t \in Tables : waitSyncMeta[t].st = TaskStatusFailed /\ waitSyncMeta[t].failed >= 1

\* C6: the step that makes a table row FAILED happens after all its chunk
\* tasks returned, writes the numbers of SUCCESS and of FAILED chunk rows into
\* the counters and deletes no chunk row (chunks_total rows are still there);
\* and a table task that returns nil while a chunk row is FAILED makes its
\* table FAILED
C6_FailedKeepsChunks ==
    [][\A t \in Tables :
         /\ (waitSyncMeta[t].st # TaskStatusFailed /\ waitSyncMeta'[t].st = TaskStatusFailed)
               => /\ \A p \in Predicates : chunkTask[t][p] \in {"none", "done"}
                  /\ waitSyncMeta'[t].ok =
                        Cardinality({p \in Predicates : fullSyncMeta'[t][p] = TaskStatusSuccess})
                  /\ waitSyncMeta'[t].failed =
                        Cardinality({p \in Predicates : fullSyncMeta'[t][p] = TaskStatusFailed})
                  /\ waitSyncMeta'[t].failed >= 1
                  /\ fullSyncMeta' = fullSyncMeta
                  /\ Cardinality({p \in Predicates : fullSyncMeta'[t][p] # NoChunk})
                        = waitSyncMeta'[t].total
         /\ (/\ tblTask[t] = "chunks" /\ tblTask'[t] = "ok"
             /\ \E p \in Predicates : fullSyncMeta[t][p] = TaskStatusFailed)
               => waitSyncMeta'[t].st = TaskStatusFailed
      ]_vars

\* a table of two chunks is FAILED with one chunk SUCCESS and one FAILED, both
\* rows present
C6_Witness ==
    \E t \in Tables : /\ waitSyncMeta[t].st = TaskStatusFailed
                      /\ waitSyncMeta[t].ok = 1
                      /\ waitSyncMeta[t].failed = 1
                      /\ fullSyncMeta[t][1] = TaskStatusSuccess
                      /\ fullSyncMeta[t][2] = TaskStatusFailed

\* C7: a table row in SUCCESS has chunks_ok = chunks_total and chunks_failed = 0
C7_SuccessCounters ==
    \A t \in Tables :
        waitSyncMeta[t].st = TaskStatusSuccess
            => /\ waitSyncMeta[t].ok = waitSyncMeta[t].total
               /\ waitSyncMeta[t].failed = 0

\* a resumed table of two chunks, of which the run queried the second only,
\* is SUCCESS
C7_Witness ==
    \E t \in Tables : /\ pc = "syncPart"
                      /\ waitSyncMeta[t].st = TaskStatusSuccess
                      /\ waitSyncMeta[t].total = 2
                      /\ QueriedOf(t) = {2}

AllChildrenTerminal(t) == \A p \in Children(t) : fullSyncMeta[t][p] \in Terminal
CountersSum(t) == waitSyncMeta[t].ok + waitSyncMeta[t].failed

\* C8 as stated, for the tables that have chunk rows: chunks_ok + chunks_failed
\* <= chunks_total, with equality exactly when every chunk row of the table is
\* SUCCESS or FAILED
C8_CountersEqualIffTerminal ==
    \A t \in Tables :
        (HasRow(t) /\ Children(t) # {})
            => /\ CountersSum(t) <= waitSyncMeta[t].total
               /\ (CountersSum(t) = waitSyncMeta[t].total) <=> AllChildrenTerminal(t)

\* C8 amended: chunks_ok + chunks_failed <= chunks_total; equality implies that
\* every chunk row is SUCCESS or FAILED, and it holds for every SUCCESS or
\* FAILED table row; the counters are written with the table's outcome only
C8_CountersWithinTotal ==
    \A t \in Tables :
        HasRow(t) => /\ CountersSum(t) <= waitSyncMeta[t].total
                     /\ (CountersSum(t) = waitSyncMeta[t].total) => AllChildrenTerminal(t)
                     /\ waitSyncMeta[t].st \in Terminal
                           => CountersSum(t) = waitSyncMeta[t].total

\* the process died after the last chunk of a table completed and before the
\* table's outcome was written: all chunk rows are terminal, the counters are not
C8_Witness ==
    \E t \in Tables : /\ pc = "idle"
                      /\ waitSyncMeta[t].st = TaskStatusRunning
                      /\ waitSyncMeta[t].total = 2
                      /\ Cardinality(Children(t)) = 2
                      /\ AllChildrenTerminal(t)
                      /\ CountersSum(t) < waitSyncMeta[t].total

\* a RUNNING row whose chunk rows are not chunks_total many
Broken ==
    \E t \in Tables : /\ waitSyncMeta[t].st = TaskStatusRunning
                      /\ Cardinality(Children(t)) # waitSyncMeta[t].total

\* C9: while a RUNNING row has a wrong number of chunk rows no table is planned
\* or executed and no chunk is queried, and the run leaves the consistency
\* check only by returning the checkpoint error (or a metadata error, or
\* being killed)
C9_InconsistentStopsRun ==
    /\ [](Broken => /\ pc \notin {"init", "syncPart", "syncWait", "report"}
                    /\ queried = {})
    /\ [][(Broken /\ pc = "classify" /\ pc' # "classify")
             => /\ pc' = "idle"
                /\ result' \in {"errInconsistent", "errMeta", "killed"}
         ]_vars

\* the run returned the checkpoint error while another table was waiting to
\* be planned
C9_Witness ==
    /\ pc = "idle"
    /\ result = "errInconsistent"
    /\ Broken
    /\ \E t \in Tables : waitSyncMeta[t] = PlaceholderRow

\* C10, for the configured tables: once a run without checkpoint has passed
\* the deletions (CSV lines 93-176) no chunk row is left, and the row of a
\* configured table is its SUCCESS row or the WAITING row the run created
C10_NoCheckpointKeepsOnlySuccess ==
    (~EnableCheckpoint /\ pc = "errcheck")
        => /\ \A t \in Tables : Children(t) = {}
           /\ \A t \in exporters :
                 HasRow(t) => \/ waitSyncMeta[t].st = TaskStatusSuccess
                              \/ waitSyncMeta[t] = PlaceholderRow

\* C11: the step of CSV lines 145-176 deletes exactly the SUCCESS rows of the
\* tables that are not configured and changes no other row; during a run the
\* SUCCESS row of a configured table is never changed, no chunk row appears for
\* it, no planning or table task starts for it and none of its chunks is queried
C11_ReapKeepsConfigured ==
    [][/\ (pc = "reap" /\ pc' = "errcheck")
            => /\ cleared' = {t \in Tables : /\ waitSyncMeta[t].st = TaskStatusSuccess
                                             /\ t \notin exporters}
               /\ \A t \in Tables :
                     waitSyncMeta'[t] = IF t \in cleared' THEN NoRow ELSE waitSyncMeta[t]
       /\ \A t \in Tables :
            (t \in exporters /\ waitSyncMeta[t].st = TaskStatusSuccess)
               => /\ waitSyncMeta'[t] = waitSyncMeta[t]
                  /\ \A p \in Predicates : fullSyncMeta'[t][p] = NoChunk
                  /\ tblTask'[t] \in {tblTask[t], "none"}
                  /\ \A p \in Predicates : <<t, p>> \in queried' => <<t, p>> \in queried
      ]_vars

\* a run configured for A alone deleted the SUCCESS row of B, kept the SUCCESS
\* row of A and reached its report without a query
C11_Witness ==
    /\ pc = "report"
    /\ exporters = {"A"}
    /\ cleared = {"B"}
    /\ waitSyncMeta["A"].st = TaskStatusSuccess
    /\ waitSyncMeta["B"] = NoRow
    /\ queried = {}

\* the metadata is as a planner pass over the list cfg leaves it: no SUCCESS
\* row of a table outside cfg, and the pass stopped on a FAILED row or on an
\* inconsistent RUNNING row, or every table of cfg has a row and no row is the
\* WAITING placeholder
PlanComplete(cfg) ==
    /\ \A t \in Tables : waitSyncMeta[t].st = TaskStatusSuccess => t \in cfg
    /\ \/ \E t \in Tables : waitSyncMeta[t].st = TaskStatusFailed
       \/ /\ \A t \in cfg : waitSyncMeta[t].st # "NONE"
          /\ \/ \E t \in Tables : /\ waitSyncMeta[t].st = TaskStatusRunning
                                   /\ Cardinality({p \in Predicates : fullSyncMeta[t][p] # NoChunk})
                                         # waitSyncMeta[t].total
             \/ \A t \in Tables : waitSyncMeta[t] # PlaceholderRow

C14_ChunkTaskReleased ==
    \A t \in Tables :
        (pc = "init" /\ tblTask[t] \in {"ok", "failed"}) => oracleTask[t] # "open"

\* C15: the expression of a TIMESTAMP column has the format without fraction
\* for the scale 0, .ff<s> for a scale s of 1 to 6, and .ff6 for any other scale
C15_TimestampFormat ==
    \A i \in 1..Len(columnNames) :
        LET rowCol == columnsINFO[i]
            s == Atoi(rowCol.DATA_SCALE)
        IN  rowCol.DATA_TYPE \in {"TIMESTAMP", "TIMESTAMP WITH TIME ZONE"}
                => columnNames[i] =
                      "TO_CHAR(" \o rowCol.COLUMN_NAME \o ",'yyyy-mm-dd hh24:mi:ss"
                         \o (IF s = 0 THEN ""
                             ELSE IF 1 <= s /\ s <= 6 THEN ".ff" \o rowCol.DATA_SCALE
                             ELSE ".ff6")
                         \o "') AS " \o rowCol.COLUMN_NAME

\* C16: two chunk rows of one table never have the same CSVFile, and the chunk
\* rows of a plan are created for a table that has no chunk row
C16_DistinctOutputPaths ==
    /\ [](\A t \in Tables : \A p, q \in Predicates :
            (/\ fullSyncMeta[t][p] # NoChunk
             /\ fullSyncMeta[t][q] # NoChunk
             /\ p # q) => CSVFile(t, p) # CSVFile(t, q))
    /\ [][\A t \in Tables :
            (tblTask[t] = "plan" /\ fullSyncMeta'[t] # fullSyncMeta[t])
               => \A p \in Predicates : fullSyncMeta[t][p] = NoChunk
         ]_vars

\* one table is planned as two chunks, with the files 0 and 1, and the other as
\* the whole table, with the file 0
C16_Witness ==
    /\ pc = "syncWait"
    /\ {p \in Predicates : fullSyncMeta["A"][p] # NoChunk} = {1, 2}
    /\ {p \in Predicates : fullSyncMeta["B"][p] # NoChunk} = {WholeTable}
    /\ CSVFile("A", 1) = <<"A", 0>>
    /\ CSVFile("A", 2) = <<"A", 1>>
    /\ CSVFile("B", WholeTable) = <<"B", 0>>

\* C17: no run is past the version gate with a version below the required one;
\* such a version makes the call return the version error, and the step that
\* returns it changes no row
C17_VersionGate ==
    /\ [](pc # "idle" => oraDBVersion >= RequireOracleDBVersion)
    /\ []((oraDBVersion \in OracleVersions /\ oraDBVersion < RequireOracleDBVersion)
            => (pc = "idle" /\ result = "errVersion"))
    /\ [][(result # "errVersion" /\ result' = "errVersion")
            => /\ pc = "idle" /\ pc' = "idle"
               /\ oraDBVersion' < RequireOracleDBVersion
               /\ waitSyncMeta' = waitSyncMeta
               /\ fullSyncMeta' = fullSyncMeta
         ]_vars

\* a call on a source of version 10 returned the version error; the rows an
\* earlier run left are there
C17_Witness ==
    /\ pc = "idle"
    /\ result = "errVersion"
    /\ oraDBVersion = 10
    /\ \E t \in Tables : waitSyncMeta[t].st = TaskStatusRunning

\* C18: the step that records a running chunk FAILED ends the chunk task, and
\* the run and the task of the table go on
C18_ChunkFailureLocalized ==
    [][\A t \in Tables : \A p \in Predicates :
         (/\ chunkTask[t][p] = "run"
          /\ fullSyncMeta[t][p] # TaskStatusFailed
          /\ fullSyncMeta'[t][p] = TaskStatusFailed)
            => /\ chunkTask'[t][p] = "done"
               /\ tblTask'[t] = "chunks"
               /\ pc' = pc
      ]_vars

Planned(u) ==
    /\ waitSyncMeta[u].scn = CurrentSCN
    /\ waitSyncMeta[u].total >= 1

\* C20 as stated: when a chunk task starts, every table the run selected for
\* planning is planned
C20_PlanBeforeAnyChunk ==
    [][\A t \in Tables : \A p \in Predicates :
         (chunkTask[t][p] # "run" /\ chunkTask'[t][p] = "run")
            => \A u \in waitSyncTables : Planned(u)
      ]_vars

\* C20 amended: the chunks of the resumable RUNNING tables are executed first,
\* before the planning; when a chunk task of a table selected for planning
\* starts, the planning call has returned and every selected table is planned
C20_PlanBeforeWaitingChunks ==
    [][\A t \in Tables : \A p \in Predicates :
         (chunkTask[t][p] # "run" /\ chunkTask'[t][p] = "run")
            => \/ pc = "syncPart" /\ t \in partSyncTables
               \/ /\ pc = "syncWait" /\ t \in waitSyncTables
                  /\ \A u \in waitSyncTables : Planned(u)
      ]_vars

\* a chunk of the resumed table A was queried while B was not planned, and now
\* a chunk of B runs
C20_Witness ==
    /\ pc = "syncWait"
    /\ partSyncTables = {"A"}
    /\ waitSyncTables = {"B"}
    /\ \E p \in Predicates : <<"A", p>> \in queried
    /\ \E p \in Predicates : chunkTask["B"][p] = "run"

(* ------------------------------- C21 ----------------------------------- *)
\* C21: within one run the resumable RUNNING tables are executed to the end
\* before any chunk of a table that was WAITING at the start: when a chunk
\* task of a table selected for planning starts, no task of a resumable table
\* is left, each resumable table is SUCCESS or FAILED and none of its chunks
\* is still WAITING
C21_ResumableBeforeWaiting ==
    [][\A t \in Tables : \A p \in Predicates :
         (t \in waitSyncTables /\ chunkTask[t][p] # "run" /\ chunkTask'[t][p] = "run")
            => \A u \in partSyncTables :
                 /\ u # t
                 /\ tblTask[u] = "none"
                 /\ \A q \in Predicates : chunkTask[u][q] = "none"
                 /\ waitSyncMeta[u].st \in Terminal
                 /\ ChildrenIn(u, {TaskStatusWaiting}) = {}
      ]_vars

\* both chunks of the resumed table A were executed and A is FAILED; now a
\* chunk of B, WAITING at the start, runs
C21_Witness ==
    /\ pc = "syncWait"
    /\ partSyncTables = {"A"}
    /\ "B" \in waitSyncTables
    /\ QueriedOf("A") = {1, 2}
    /\ waitSyncMeta["A"].st = TaskStatusFailed
    /\ \E p \in Predicates : chunkTask["B"][p] = "run"

(* ------------------------------- C22 ----------------------------------- *)
\* C22: within one run each eligible chunk is dispatched exactly once: the
\* table task loads the chunks that are WAITING or FAILED when it is dequeued,
\* a chunk is dispatched only if its query was not issued in the run before
\* (so a chunk that failed is not retried, and no second table task dispatches
\* it), and when the table task writes the outcome every loaded chunk was
\* dispatched
C22_DispatchedOnce ==
    [][\A t \in Tables :
         /\ (tblTask[t] = "load" /\ tblTask'[t] = "chunks")
               => \A p \in Predicates :
                    chunkTask'[t][p] = "todo"
                      <=> fullSyncMeta[t][p] \in {TaskStatusWaiting, TaskStatusFailed}
         /\ \A p \in Predicates :
              (chunkTask[t][p] # "run" /\ chunkTask'[t][p] = "run")
                 => /\ <<t, p>> \notin queried
                    /\ <<t, p>> \in queried'
                    /\ chunkTask[t][p] = "todo"
         /\ (tblTask[t] = "chunks" /\ tblTask'[t] \in {"ok", "failed"})
               => \A p \in Predicates :
                    /\ chunkTask[t][p] \in {"none", "done"}
                    /\ chunkTask[t][p] = "done" <=> <<t, p>> \in queried
      ]_vars

\* chunk 1 of A failed in the run, chunk 2 was dispatched after it, and the
\* table task of A returned: each of the two was dispatched once
C22_Witness ==
    /\ tblTask["A"] = "ok"
    /\ QueriedOf("A") = {1, 2}
    /\ fullSyncMeta["A"][1] = TaskStatusFailed
    /\ fullSyncMeta["A"][2] = TaskStatusSuccess
    /\ waitSyncMeta["A"].failed = 1

(* ------------------------------- C23 ----------------------------------- *)
\* C23: a planning task that ends without the splitter invoked (zero rows in
\* the statistics) or with the chunk task of the source left open and no error
\* (the split returned no chunk) has written exactly the chunk `1 = 1` and
\* chunks_total = 1; otherwise what it wrote is one chunk per returned
\* predicate, n >= 1 of them, and chunks_total = n. Every chunk it wrote is
\* WAITING and a task that wrote nothing left the placeholder
C23_WholeTableOrPredicates ==
    [][\A t \in Tables :
         (pc = "init" /\ tblTask[t] = "plan" /\ tblTask'[t] \in {"ok", "failed"})
            => LET written == {p \in Predicates : fullSyncMeta'[t][p] # NoChunk}
                   whole == /\ written = {WholeTable}
                            /\ waitSyncMeta'[t].total = 1
                   split == /\ written = 1..waitSyncMeta'[t].total
                            /\ waitSyncMeta'[t].total \in 1..MaxChunks
               IN  /\ \A p \in written : fullSyncMeta'[t][p] = TaskStatusWaiting
                   /\ \A u \in Tables \ {t} :
                        /\ fullSyncMeta'[u] = fullSyncMeta[u]
                        /\ waitSyncMeta'[u] = waitSyncMeta[u]
                   /\ IF written = {}
                      THEN /\ waitSyncMeta'[t] = PlaceholderRow
                           /\ tblTask'[t] = "failed"
                      ELSE /\ waitSyncMeta'[t].st = TaskStatusWaiting
                           /\ waitSyncMeta'[t].scn = CurrentSCN
                           /\ whole \/ split
                           /\ oracleTask'[t] = "none" => whole
                           /\ (oracleTask'[t] = "open" /\ tblTask'[t] = "ok") => whole
                           /\ (oracleTask'[t] = "closed" \/ tblTask'[t] = "failed") => split
      ]_vars

\* A was planned without the splitter and has the whole-table chunk, B was
\* split in two chunks
C23_Witness ==
    /\ pc = "init"
    /\ tblTask["A"] = "ok" /\ tblTask["B"] = "ok"
    /\ oracleTask["A"] = "none"
    /\ Children("A") = {WholeTable} /\ waitSyncMeta["A"].total = 1
    /\ oracleTask["B"] = "closed"
    /\ Children("B") = {1, 2} /\ waitSyncMeta["B"].total = 2

(* ------------------------------- C24 ----------------------------------- *)
\* C24: no chunk task returns with the cursor it opened still open
C24_CursorReleased == rowsOpen = {}

(* ------------------------------- C25 ----------------------------------- *)
\* C25: every metadata operation addresses the row of the table by the
\* upper-cased schema and table identifiers, the key under which the row was
\* created, and so the transition to RUNNING reaches the row
C25_UpperCasedKeys ==
    /\ keyArg # NoKey => keyArg = RowKey
    /\ keyPc = "outcome" => keyRow = TaskStatusRunning

(* ------------------------------- C26 ----------------------------------- *)
\* C26: a planning task that fails before the chunk task of its table is
\* started on the source (the catalog among the causes) writes nothing: the
\* table keeps its placeholder and has no chunk row, and no other task is
\* stopped. The planning call returns only when every selected table had its
\* task, and each task that returned nil has planned its table
C26_CatalogFailureLocal ==
    [][/\ \A t \in Tables :
            (pc = "init" /\ tblTask[t] = "plan" /\ tblTask'[t] = "failed"
                /\ oracleTask'[t] = "none")
               => /\ UNCHANGED <<metaVars, todo>>
                  /\ waitSyncMeta[t] = PlaceholderRow
                  /\ Children(t) = {}
                  /\ \A u \in Tables \ {t} : tblTask'[u] = tblTask[u]
       /\ (pc = "init" /\ (pc' = "syncWait" \/ result' = "errPlan"))
               => \A u \in waitSyncTables :
                    /\ tblTask[u] \in {"ok", "failed"}
                    /\ tblTask[u] = "ok" => (Planned(u) /\ Children(u) # {})
      ]_vars

\* the planning of A failed before its chunk task was started: A keeps the
\* placeholder; B was planned after that, in two chunks
C26_Witness ==
    /\ pc = "init"
    /\ gErr # "nil"
    /\ tblTask["A"] = "failed" /\ oracleTask["A"] = "none"
    /\ waitSyncMeta["A"] = PlaceholderRow /\ Children("A") = {}
    /\ tblTask["B"] = "ok" /\ Planned("B") /\ Children("B") = {1, 2}

(* ------------------------------- C27 ----------------------------------- *)
\* C27: at most table-threads table tasks are in flight, at most sql-threads
\* chunk tasks of each table, and at most task-threads planning tasks
C27_ConcurrencyLimits ==
    /\ Syncing => Cardinality(InFlight) <= threads.table
    /\ pc = "init" => Cardinality(InFlight) <= threads.task
    /\ \A t \in Tables : Cardinality(ChunksInFlight(t)) <= threads.sql
    /\ pc \notin {"init", "syncPart", "syncWait"} => InFlight = {}

\* table-threads is 1: the task of A is in flight with sql-threads chunk tasks
\* and B waits for the slot
C27_Witness ==
    /\ pc = "syncWait"
    /\ threads.table = 1
    /\ InFlight = {"A"}
    /\ todo = {"B"}
    /\ Cardinality(ChunksInFlight("A")) = threads.sql
    /\ threads.sql = 2

(* ------------------------------- C28 ----------------------------------- *)
\* C28: the type rules do not depend on the case of DATA_TYPE: each
\* expression is the one of the upper-case spelling of its column
C28_CaseInsensitiveRules ==
    \A i \in 1..Len(columnNames) :
        columnNames[i] = ColumnExpr([columnsINFO[i] EXCEPT !.DATA_TYPE = ToUpper(@)])

(* ------------------------------- C29 ----------------------------------- *)
\* C29: every chunk of a table reads the data of the SCN stored in the rows
\* of the table, whatever was committed on the source since the planning
C29_ReadsAtSnapshot ==
    \A p \in 1..MaxChunks : chunkRead[p] # 0 => chunkRead[p] = globalSCN

(* ------------------------------- C30 ----------------------------------- *)
\* C30: a run with enable-checkpoint that returns nil leaves every configured
\* table SUCCESS or FAILED
C30_NilRunLeavesTerminal ==
    [][(pc = "report" /\ result' = "nil" /\ EnableCheckpoint /\ ~failedAtStart)
          => \A t \in exporters : waitSyncMeta'[t].st \in Terminal
      ]_vars

(* ------------------------------- C31 ----------------------------------- *)
\* C31: a table task that reads err after its update goes on to load its
\* chunks if and only if its own update returned nil, and the error it returns
\* otherwise is the one of its own update
C31_OwnUpdateDecides ==
    [][\A t \in Tables :
         (Syncing /\ tblTask[t] = "check" /\ tblTask'[t] \in {"load", "failed"})
            => (tblTask'[t] = "load" <=> updateErr[t] = "nil")
      ]_vars

(* ------------------------------- C32 ----------------------------------- *)
\* C32: a worker whose write to reverse.sql or to compatibility.sql failed
\* has returned an error, and the call it belongs to returns an error
C32_WriteFailureReported ==
    \A t \in RevTables :
        revWrite[t] \in {"errReverse", "errCompatibility"}
            => /\ revTask[t] = "failed"
               /\ revPc = "idle" => revResult = "err"

====
